---- MODULE Spec2Model ----
(***************************************************************************)
(* Reduction from SAT to ILP (src/sat.py, src/sat2.py).                    *)
(*                                                                         *)
(* A formula is a Set(operator, values) whose values are literal names     *)
(* (Python str) or nested Sets.  sat_to_ilp walks the formula, allocating  *)
(* one binary LpVariable per literal name and one auxiliary variable per   *)
(* gate, and emits linear constraints; the root variable becomes the       *)
(* objective of an LpMaximize problem.  solve_ilp solves the problem and   *)
(* reads the literal values back.  verify_sat evaluates a formula under a  *)
(* dict of literal values.                                                 *)
(*                                                                         *)
(* The recursion of process_set is modelled with an explicit stack of      *)
(* frames, one step per operand processed and one per gate returned.       *)
(***************************************************************************)
EXTENDS Integers, Sequences, FiniteSets, TLC

VARIABLES
    equation,     \* the Set passed to solve_ilp / sat_to_ilp / verify_sat
    pc,           \* "start" | "encoding" | "encoded" | "solved" | "verified"
    stack,        \* active process_set calls: [node, values], innermost last
    problem,      \* constraints added to the LpProblem, in order
    objective,    \* the LpProblem's objective (a variable), NoVar before it is set
    variables,    \* the dict `variables`: literal names in insertion order
    aux_counter,  \* aux_counter["count"]
    returned,     \* (equation, op, values, aux_var) of every process_set call that allocated aux_var
    outcome,      \* "" | "return" | the exception a call ended with
    solution,     \* the dict solve_ilp returned
    input,        \* the dict given to verify_sat
    verdict,      \* the bool verify_sat returned
    first         \* what an earlier, finished sat_to_ilp call returned

vars == <<equation, pc, stack, problem, objective, variables, aux_counter,
          returned, outcome, solution, input, verdict, first>>

\* ------------------------------------------------------------------ bounds
\* Formulas of up to MaxNodes nodes (literal occurrences plus gates) are
\* enumerated for the single-call specification.
MaxNodes == 4
\* Formulas of up to MaxNodesAgain nodes are encoded twice in SpecAgain.
MaxNodesAgain == 3
\* Literal names of the enumerated formulas.
Names == {"a", "b"}

\* ----------------------------------------------------------- formula model
Operators == {"AND", "OR", "NOT"}

\* A literal: a Python str in a Set's values.
Str(n) == [operator |-> "STR", name |-> n, values |-> <<>>]

\* Set(operator=o, values=vs)
Set(o, vs) == [operator |-> o, name |-> "", values |-> vs]

\* isinstance(e, str)
IsStr(e) == e.operator = "STR"

RECURSIVE Trees(_), Forests(_)
\* every formula with exactly n nodes, arity unchecked as in the pydantic model
Trees(n) ==
    IF n = 0 THEN {}
    ELSE (IF n = 1 THEN {Str(x) : x \in Names} ELSE {})
         \cup {Set(o, vs) : o \in Operators, vs \in Forests(n - 1)}

\* every operand list with k nodes in total
Forests(k) ==
    IF k = 0 THEN {<<>>}
    ELSE UNION {{<<t>> \o r : t \in Trees(j), r \in Forests(k - j)} : j \in 1..k}

\* The formulas of the repository's tests that exceed the enumeration.
TestEquations ==
    LET ab == Set("AND", <<Str("a"), Str("b")>>)
    IN  { Set("OR", <<ab, Str("c")>>),
          Set("NOT", <<Set("OR", <<ab, Set("NOT", <<Str("c")>>)>>)>>),
          Set("NOT", <<Set("AND", <<ab, ab>>)>>) }

SetsUpTo(n) == {e \in UNION {Trees(k) : k \in 1..n} : ~IsStr(e)}

Equations == SetsUpTo(MaxNodes) \cup TestEquations

EquationsAgain == SetsUpTo(MaxNodesAgain)

\* ------------------------------------------------------------ LP variables
\* LpVariable(f"x_{name}", 0, 1, cat="Binary")
XVar(n) == [cat |-> "x", name |-> n, index |-> 0]

\* LpVariable(f"aux_{k}", 0, 1, cat="Binary")
AuxVar(k) == [cat |-> "aux", name |-> "", index |-> k]

NoVar == [cat |-> "none", name |-> "", index |-> 0]

\* generate_aux_var without `aux_counter["count"] += 1`
generate_aux_var_stuck(count) == [var |-> AuxVar(count), count |-> count]

\* generate_aux_var: the variable named after the counter, and the counter after it
generate_aux_var(count) == [var |-> AuxVar(count), count |-> count + 1]

\* A constraint  lhs rel sign * (terms[1] + ... + terms[n]) + const
Constraint(lhs, rel, sign, terms, const) ==
    [lhs |-> lhs, rel |-> rel, sign |-> sign, terms |-> terms, const |-> const]

\* process_set without the `aux_var <= v` constraints of AND
GateConstraintsAndUnbounded(op, values, aux_var) ==
    CASE op = "AND" ->
            <<Constraint(aux_var, ">=", 1, values, 1 - Len(values))>>
      [] op = "OR" ->
            [i \in 1..Len(values) |-> Constraint(aux_var, ">=", 1, <<values[i]>>, 0)]
            \o <<Constraint(aux_var, "<=", 1, values, 0)>>
      [] op = "NOT" ->
            <<Constraint(aux_var, "==", -1, <<values[1]>>, 1)>>

\* process_set without the `aux_var <= sum(values)` constraint of OR
GateConstraintsOrUnbounded(op, values, aux_var) ==
    CASE op = "AND" ->
            [i \in 1..Len(values) |-> Constraint(aux_var, "<=", 1, <<values[i]>>, 0)]
            \o <<Constraint(aux_var, ">=", 1, values, 1 - Len(values))>>
      [] op = "OR" ->
            [i \in 1..Len(values) |-> Constraint(aux_var, ">=", 1, <<values[i]>>, 0)]
      [] op = "NOT" ->
            <<Constraint(aux_var, "==", -1, <<values[1]>>, 1)>>

\* the constraints process_set adds for one gate, in order
GateConstraints(op, values, aux_var) ==
    CASE op = "AND" ->
            [i \in 1..Len(values) |-> Constraint(aux_var, "<=", 1, <<values[i]>>, 0)]
            \o <<Constraint(aux_var, ">=", 1, values, 1 - Len(values))>>
      [] op = "OR" ->
            [i \in 1..Len(values) |-> Constraint(aux_var, ">=", 1, <<values[i]>>, 0)]
            \o <<Constraint(aux_var, "<=", 1, values, 0)>>
      [] op = "NOT" ->
            <<Constraint(aux_var, "==", -1, <<values[1]>>, 1)>>

\* variables[equation] = LpVariable(...) unless the name is already a key
Declare(dict, n) ==
    IF \E i \in 1..Len(dict) : dict[i] = n THEN dict ELSE Append(dict, n)

\* the root forced to 1 by a constraint, besides being the objective
SatisfiabilityForced(prob, root) ==
    [problem |-> Append(prob, Constraint(root, "==", 1, <<>>, 1)), objective |-> root]

\* problem += root, "Satisfiability": the root becomes the objective and the
\* constraints stay as they are
Satisfiability(prob, root) == [problem |-> prob, objective |-> root]

\* a counter that outlives the call
StaleCounter == aux_counter

\* the locals of a fresh sat_to_ilp call
FreshCounter == 0

FreshVariables == <<>>

NoEncoding == [set |-> FALSE, equation |-> Set("AND", <<>>), problem |-> <<>>,
               variables |-> <<>>, count |-> 0, objective |-> NoVar, others |-> FALSE]

\* --------------------------------------------------------------- encoding
Frame(e) == [node |-> e, values |-> <<>>]

Top == stack[Len(stack)]

\* the operand the innermost process_set call handles next
NextOperand == Len(Top.values) + 1

HasOperand == NextOperand <= Len(Top.node.values)

\* the innermost call's frame with v appended to its values
Push(stk, v) ==
    [stk EXCEPT ![Len(stk)].values = Append(@, v)]

\* sat_to_ilp entry: fresh problem, dict and counter, then process_set(equation)
Call ==
    /\ pc = "start"
    /\ pc' = "encoding"
    /\ problem' = <<>>
    /\ objective' = NoVar
    /\ variables' = FreshVariables
    /\ aux_counter' = FreshCounter
    /\ returned' = <<>>
    /\ stack' = <<Frame(equation)>>
    /\ UNCHANGED <<equation, outcome, solution, input, verdict, first>>

\* process_set on a str operand: declare the literal and return its variable
ProcessStr ==
    /\ pc = "encoding"
    /\ HasOperand
    /\ IsStr(Top.node.values[NextOperand])
    /\ LET n == Top.node.values[NextOperand].name
       IN  /\ variables' = Declare(variables, n)
           /\ stack' = Push(stack, XVar(n))
    /\ UNCHANGED <<equation, pc, problem, objective, aux_counter, returned,
                   outcome, solution, input, verdict, first>>

\* process_set on a Set operand: recurse
ProcessSet ==
    /\ pc = "encoding"
    /\ HasOperand
    /\ ~IsStr(Top.node.values[NextOperand])
    /\ stack' = Append(stack, Frame(Top.node.values[NextOperand]))
    /\ UNCHANGED <<equation, pc, problem, objective, variables, aux_counter,
                   returned, outcome, solution, input, verdict, first>>

\* all operands processed: allocate the auxiliary variable, add the gate's
\* constraints and return it to the caller; the outermost return sets the objective
Return ==
    /\ pc = "encoding"
    /\ ~HasOperand
    /\ LET op   == Top.node.operator
           vals == Top.values
           gen  == generate_aux_var(aux_counter)
           rest == SubSeq(stack, 1, Len(stack) - 1)
       IN  /\ aux_counter' = gen.count
           /\ returned' = Append(returned, [aux |-> gen.var, operator |-> op,
                                          values |-> vals, node |-> Top.node])
           /\ IF op = "NOT" /\ vals = <<>>
              THEN \* values[0] raises IndexError
                   /\ pc' = "raised"
                   /\ outcome' = "IndexError"
                   /\ stack' = <<>>
                   /\ UNCHANGED <<problem, objective>>
              ELSE LET prob == problem \o GateConstraints(op, vals, gen.var)
                   IN  IF rest = <<>>
                       THEN LET done == Satisfiability(prob, gen.var)
                            IN  /\ problem' = done.problem
                                /\ objective' = done.objective
                                /\ pc' = "encoded"
                                /\ stack' = <<>>
                                /\ UNCHANGED outcome
                       ELSE /\ problem' = prob
                            /\ stack' = Push(rest, gen.var)
                            /\ UNCHANGED <<pc, objective, outcome>>
    /\ UNCHANGED <<equation, variables, solution, input, verdict, first>>

\* ----------------------------------------------------------------- solver
RECURSIVE SumOf(_, _)
\* sum(values) under the 0/1 assignment s
SumOf(terms, s) ==
    IF terms = <<>> THEN 0 ELSE s[Head(terms)] + SumOf(Tail(terms), s)

\* whether the 0/1 assignment s satisfies constraint c
Satisfies(s, c) ==
    LET rhs == c.sign * SumOf(c.terms, s) + c.const
    IN  CASE c.rel = "<=" -> s[c.lhs] <= rhs
          [] c.rel = ">=" -> s[c.lhs] >= rhs
          [] c.rel = "==" -> s[c.lhs] = rhs

\* the variables of an LpProblem: those of its objective and of its constraints
ProblemVariables(prob, obj) ==
    {obj} \cup {prob[i].lhs : i \in 1..Len(prob)}
          \cup UNION {{prob[i].terms[j] : j \in 1..Len(prob[i].terms)} : i \in 1..Len(prob)}

\* the assignments of the binary variables that satisfy every constraint
Feasible(prob, obj) ==
    {s \in [ProblemVariables(prob, obj) -> {0, 1}] :
        \A i \in 1..Len(prob) : Satisfies(s, prob[i])}

\* LpMaximize: the feasible assignments with the largest objective value
Optimal(prob, obj) ==
    LET F == Feasible(prob, obj)
    IN  {s \in F : \A t \in F : s[obj] >= t[obj]}

\* solve_ilp after sat_to_ilp returned: solve, then read the literals' values
\* when the status is "Optimal" and raise "No solution" otherwise.  The solver
\* may return any optimum.  A variable of the dict that is in no constraint
\* has value None, and round(None) raises TypeError.
Solve ==
    /\ pc = "encoded"
    /\ pc' = "solved"
    /\ LET opt == Optimal(problem, objective)
           pv  == ProblemVariables(problem, objective)
           keys == {variables[i] : i \in 1..Len(variables)}
       IN  IF opt = {}
           THEN /\ outcome' = "No solution"
                /\ UNCHANGED solution
           ELSE \E s \in opt :
                  IF \E n \in keys : XVar(n) \notin pv
                  THEN /\ outcome' = "TypeError"
                       /\ UNCHANGED solution
                  ELSE /\ outcome' = "return"
                       /\ solution' = [n \in keys |-> s[XVar(n)] = 1]
    /\ UNCHANGED <<equation, stack, problem, objective, variables, aux_counter,
                   returned, input, verdict, first>>

\* -------------------------------------------------------------- validator
Ok(b) == [raised |-> "", value |-> b]

Raise(x) == [raised |-> x, value |-> FALSE]

RECURSIVE AllOf(_, _), AnyOf(_, _)
\* all(input[v] for v in values): a generator, consumed up to the first False
AllOf(values, inp) ==
    IF values = <<>> THEN Ok(TRUE)
    ELSE IF Head(values).name \notin DOMAIN inp THEN Raise("KeyError")
    ELSE IF ~inp[Head(values).name] THEN Ok(FALSE)
    ELSE AllOf(Tail(values), inp)

\* any(input[v] for v in values): a generator, consumed up to the first True
AnyOf(values, inp) ==
    IF values = <<>> THEN Ok(FALSE)
    ELSE IF Head(values).name \notin DOMAIN inp THEN Raise("KeyError")
    ELSE IF inp[Head(values).name] THEN Ok(TRUE)
    ELSE AnyOf(Tail(values), inp)

use_operator_on_values(e, inp) ==
    CASE e.operator = "NOT" ->
            IF e.values = <<>> THEN Raise("IndexError")
            ELSE IF e.values[1].name \notin DOMAIN inp THEN Raise("KeyError")
            ELSE Ok(~inp[e.values[1].name])
      [] e.operator = "AND" -> AllOf(e.values, inp)
      [] e.operator = "OR" -> AnyOf(e.values, inp)

use_operator_on_booleans(operator, booleans) ==
    CASE operator = "NOT" ->
            IF booleans = <<>> THEN Raise("IndexError") ELSE Ok(~booleans[1])
      [] operator = "AND" -> Ok(\A i \in 1..Len(booleans) : booleans[i])
      [] operator = "OR" -> Ok(\E i \in 1..Len(booleans) : booleans[i])

RECURSIVE verify_sat(_, _)
\* A str has no attribute `values`: AttributeError.  The list comprehension
\* evaluates every operand in order, so the first exception is the one raised.
verify_sat(e, inp) ==
    IF IsStr(e) THEN Raise("AttributeError")
    ELSE IF \A i \in 1..Len(e.values) : IsStr(e.values[i])
    THEN use_operator_on_values(e, inp)
    ELSE LET rs == [i \in 1..Len(e.values) |-> verify_sat(e.values[i], inp)]
             failed == {i \in 1..Len(rs) : rs[i].raised # ""}
         IN  IF failed # {}
             THEN rs[CHOOSE i \in failed : \A j \in failed : i <= j]
             ELSE use_operator_on_booleans(e.operator, [i \in 1..Len(rs) |-> rs[i].value])

RECURSIVE LiteralsOf(_)
\* the literal names a formula refers to
LiteralsOf(e) ==
    IF IsStr(e) THEN {e.name}
    ELSE UNION {LiteralsOf(e.values[i]) : i \in 1..Len(e.values)}

\* the dicts given to verify_sat: values for some or all of the formula's literals
Inputs(e) == UNION {[D -> BOOLEAN] : D \in SUBSET LiteralsOf(e)}

\* verify_sat(equation, input)
Verify ==
    /\ pc = "start"
    /\ pc' = "verified"
    /\ \E inp \in Inputs(equation) :
          LET r == verify_sat(equation, inp)
          IN  /\ input' = inp
              /\ outcome' = IF r.raised = "" THEN "return" ELSE r.raised
              /\ verdict' = r.value
    /\ UNCHANGED <<equation, stack, problem, objective, variables, aux_counter,
                   returned, solution, first>>

\* ------------------------------------------------------- a later call
\* what sat_to_ilp returned, kept by the caller
Encoding == [set |-> TRUE, equation |-> equation, problem |-> problem,
             variables |-> variables, count |-> aux_counter, objective |-> objective,
             others |-> FALSE]

\* The caller keeps the first finished encoding and calls sat_to_ilp again, on
\* the same formula or on another one (others: another one was encoded since).
Again ==
    /\ pc = "encoded"
    /\ pc' = "start"
    /\ LET kept == IF first.set THEN first ELSE Encoding
       IN  \E g \in {kept.equation} \cup TestEquations :
              /\ equation' = g
              /\ first' = [kept EXCEPT !.others = @ \/ g # kept.equation]
    /\ UNCHANGED <<stack, problem, objective, variables, aux_counter, returned,
                   outcome, solution, input, verdict>>

\* ---------------------------------------------------------- specifications
InitWith(E) ==
    /\ equation \in E
    /\ pc = "start"
    /\ stack = <<>>
    /\ problem = <<>>
    /\ objective = NoVar
    /\ variables = <<>>
    /\ aux_counter = 0
    /\ returned = <<>>
    /\ outcome = ""
    /\ solution = <<>>
    /\ input = <<>>
    /\ verdict = FALSE
    /\ first = NoEncoding

Init == InitWith(Equations)

Next == Call \/ ProcessStr \/ ProcessSet \/ Return \/ Solve \/ Verify

\* one solve_ilp or verify_sat call on one formula
Spec == Init /\ [][Next]_vars

InitAgain == InitWith(EquationsAgain)

NextAgain == Call \/ ProcessStr \/ ProcessSet \/ Return \/ Again

\* sat_to_ilp called repeatedly
SpecAgain == InitAgain /\ [][NextAgain]_vars

\* ------------------------------------------------------ formula semantics
RECURSIVE ArityValid(_)
\* NOT has exactly one operand, AND and OR at least one, at every depth
ArityValid(e) ==
    \/ IsStr(e)
    \/ /\ IF e.operator = "NOT" THEN Len(e.values) = 1 ELSE Len(e.values) >= 1
       /\ \A i \in 1..Len(e.values) : ArityValid(e.values[i])

RECURSIVE Holds(_, _)
\* the truth value of formula e under the total assignment a of its literals:
\* NOT negates its operand, AND holds iff all operands do, OR iff some does
Holds(e, a) ==
    CASE IsStr(e) -> a[e.name]
      [] e.operator = "NOT" -> ~Holds(e.values[1], a)
      [] e.operator = "AND" -> \A i \in 1..Len(e.values) : Holds(e.values[i], a)
      [] e.operator = "OR" -> \E i \in 1..Len(e.values) : Holds(e.values[i], a)

Satisfiable(e) == \E a \in [LiteralsOf(e) -> BOOLEAN] : Holds(e, a)

Bit(b) == IF b THEN 1 ELSE 0

\* the boolean result of a gate on the 0/1 values of its operands
GateValue(op, bits) ==
    CASE op = "AND" -> Bit(\A i \in 1..Len(bits) : bits[i] = 1)
      [] op = "OR" -> Bit(\E i \in 1..Len(bits) : bits[i] = 1)
      [] op = "NOT" -> 1 - bits[1]

RECURSIVE GateCount(_)
\* the number of gate occurrences of a formula
GateCount(e) ==
    IF IsStr(e) THEN 0
    ELSE LET below[i \in 0..Len(e.values)] ==
                 IF i = 0 THEN 0 ELSE below[i - 1] + GateCount(e.values[i])
         IN  1 + below[Len(e.values)]

RECURSIVE PostOrder(_)
\* the gate occurrences of a formula, operands left to right before their gate
PostOrder(e) ==
    IF IsStr(e) THEN <<>>
    ELSE LET below[i \in 0..Len(e.values)] ==
                 IF i = 0 THEN <<>> ELSE below[i - 1] \o PostOrder(e.values[i])
         IN  Append(below[Len(e.values)], e)

\* the gate occurrences already returned, counted from the active calls: every
\* operand an active call has finished is encoded whole
Completed ==
    LET done(f) ==
            LET part[i \in 0..Len(f.values)] ==
                    IF i = 0 THEN 0 ELSE part[i - 1] + GateCount(f.node.values[i])
            IN  part[Len(f.values)]
        total[k \in 0..Len(stack)] ==
            IF k = 0 THEN 0 ELSE total[k - 1] + done(stack[k])
    IN  total[Len(stack)]

\* ------------------------------------------------------------------ claims
AndNotA == Set("AND", <<Str("a"), Set("NOT", <<Str("a")>>)>>)

\* C1: soundness: every assignment solve_ilp returns for an arity-valid
\* formula, satisfiable or not, makes the formula true.
C1_Soundness ==
    (pc = "solved" /\ outcome = "return" /\ ArityValid(equation))
        => Holds(equation, solution)

\* C2: unsat detection: for an arity-valid formula no assignment satisfies,
\* solve_ilp ends with "No solution" and returns no assignment.
C2_UnsatDetection ==
    (pc = "solved" /\ ArityValid(equation) /\ ~Satisfiable(equation))
        => outcome = "No solution"

\* C3: completeness: for a satisfiable arity-valid formula solve_ilp does not
\* end with "No solution", and whatever optimum the solver picks, the
\* assignment returned makes the formula true.
C3_Completeness ==
    (pc = "solved" /\ ArityValid(equation) /\ Satisfiable(equation))
        => (outcome = "return" /\ Holds(equation, solution))

\* C3 witness: solve_ilp returned for the satisfiable nested test formula
\* NOT[OR[AND[a,b], NOT[c]]].
C3_Witness ==
    /\ pc = "solved"
    /\ outcome = "return"
    /\ equation = Set("NOT", <<Set("OR", <<Set("AND", <<Str("a"), Str("b")>>),
                                           Set("NOT", <<Str("c")>>)>>)>>)
    /\ solution["c"] /\ ~(solution["a"] /\ solution["b"])

\* C4: under every 0/1 assignment that satisfies all emitted constraints of
\* an arity-valid formula, each gate's auxiliary variable equals the gate's
\* boolean result on its operand variables, and the root variable equals the
\* formula's truth value under the literal values.
C4_GatesForced ==
    (pc = "encoded" /\ ArityValid(equation)) =>
        \A s \in Feasible(problem, objective) :
            /\ \A k \in 1..Len(returned) :
                  s[returned[k].aux] =
                      GateValue(returned[k].operator,
                                [j \in 1..Len(returned[k].values) |-> s[returned[k].values[j]]])
            /\ s[objective] =
                  Bit(Holds(equation, [n \in LiteralsOf(equation) |-> s[XVar(n)] = 1]))

\* C4 witness: an encoded formula with nested gates, a single-operand OR among
\* them, and a feasible assignment whose root is 0.
C4_Witness ==
    /\ pc = "encoded"
    /\ ArityValid(equation)
    /\ \E k \in 1..Len(returned) :
          returned[k].operator = "OR" /\ Len(returned[k].values) = 1
    /\ Len(returned) >= 2
    /\ \E s \in Feasible(problem, objective) : s[objective] = 0

\* C5: verify_sat handles every arity-valid formula, mixed operand lists
\* included, under every total assignment: it returns the formula's truth value.
C5_UniformRecursion ==
    (pc = "verified" /\ ArityValid(equation) /\ DOMAIN input = LiteralsOf(equation))
        => (outcome = "return" /\ verdict = Holds(equation, input))

\* C6: when the input lacks a literal of the formula, verify_sat ends with an
\* error and returns no boolean.
C6_MissingLiteral ==
    (pc = "verified" /\ ArityValid(equation) /\ DOMAIN input # LiteralsOf(equation))
        => outcome # "return"

\* C7: a formula with a NOT of other than one operand or an empty AND/OR is
\* rejected before any variable is allocated, any constraint is emitted or
\* any operand is evaluated: nothing is allocated and no call returns.
C7_ArityRejected ==
    ~ArityValid(equation) =>
        /\ variables = <<>>
        /\ aux_counter = 0
        /\ problem = <<>>
        /\ outcome # "return"

\* C8: every sat_to_ilp call starts with counter 0 and an empty literal dict,
\* and a call on a formula encoded before, with or without other formulas
\* encoded in between, yields the same variables and the same constraints.
C8_Stateless ==
    /\ (pc = "encoding" /\ stack = <<Frame(equation)>>)
          => (aux_counter = 0 /\ variables = <<>> /\ problem = <<>>)
    /\ (pc = "encoded" /\ first.set /\ first.equation = equation)
          => /\ problem = first.problem
             /\ variables = first.variables
             /\ aux_counter = first.count
             /\ objective = first.objective

\* C8 witness: a formula with gates beneath its root has been encoded again
\* after another formula was encoded in between.
C8_Witness ==
    /\ pc = "encoded"
    /\ first.set /\ first.others
    /\ first.equation = equation
    /\ aux_counter >= 2
    /\ variables # <<>>

\* C9: auxiliary variables are allocated one per gate occurrence in
\* post-order.  During a pass the counter equals the number of gate
\* occurrences returned so far; the k-th returned gate holds aux_(k-1); the
\* auxiliary operands of a gate have smaller indices than the gate and grow
\* left to right; on completion the gates were returned in post-order, the
\* counter equals the number of gate occurrences and the root holds the last index.
C9_PostOrder ==
    /\ pc = "encoding" => aux_counter = Completed
    /\ pc \in {"encoding", "encoded"} =>
          \A k \in 1..Len(returned) :
              /\ returned[k].aux = AuxVar(k - 1)
              /\ \A j \in 1..Len(returned[k].values) :
                    returned[k].values[j].cat = "aux" =>
                        /\ returned[k].values[j].index < k - 1
                        /\ \A i \in 1..(j - 1) :
                              returned[k].values[i].cat = "aux" =>
                                  returned[k].values[i].index < returned[k].values[j].index
    /\ pc = "encoded" =>
          /\ aux_counter = GateCount(equation)
          /\ [k \in 1..Len(returned) |-> returned[k].node] = PostOrder(equation)
          /\ objective = AuxVar(GateCount(equation) - 1)

\* C9 witness: NOT[AND[AND[a,b], AND[a,b]]] is encoded; the two occurrences of
\* AND[a,b] hold aux_0 and aux_1, their parent aux_2 and the root aux_3.
C9_Witness ==
    /\ pc = "encoded"
    /\ Len(returned) = 4
    /\ returned[1].node = returned[2].node
    /\ returned[1].aux # returned[2].aux
    /\ returned[3].values = <<AuxVar(0), AuxVar(1)>>
    /\ objective = AuxVar(3)

\* C10: the constraints emitted for an arity-valid formula are always
\* feasible: every 0/1 assignment of the literals extends to the auxiliary
\* variables.  So solve_ilp never ends with "No solution": it returns an
\* assignment keyed by the formula's literal names.
C10_AlwaysFeasible ==
    /\ (pc = "encoded" /\ ArityValid(equation)) =>
          \A a \in [LiteralsOf(equation) -> {0, 1}] :
              \E s \in Feasible(problem, objective) :
                  \A n \in LiteralsOf(equation) : s[XVar(n)] = a[n]
    /\ (pc = "solved" /\ ArityValid(equation)) =>
          /\ outcome = "return"
          /\ DOMAIN solution = LiteralsOf(equation)

\* C10 witness: solve_ilp returned an assignment for the unsatisfiable
\* AND[a, NOT[a]].
C10_Witness ==
    /\ pc = "solved"
    /\ equation = AndNotA
    /\ outcome = "return"
    /\ DOMAIN solution = {"a"}

====
